---- MODULE Spec2Model ----
(***************************************************************************)
(* Recipe Hub: the in-memory recipe and inventory repositories, their      *)
(* validating constructors, and the search / ingredient-scaling handler.   *)
(*                                                                         *)
(* Strings are sequences of one-character strings, so that trim, split,    *)
(* padStart, the regular expressions and the number conversions are        *)
(* computed the way the JavaScript computes them.  A JavaScript number is  *)
(* a record [k, n, e]: k = "num" is the finite decimal n / 10^e (kept      *)
(* normalised: e = 0 or n not a multiple of 10), k = "nan" is NaN and      *)
(* k = "inf" is +Infinity (n = 1) or -Infinity (n = -1).  Decimal          *)
(* arithmetic is exact; the inputs drawn below are ones on which IEEE      *)
(* doubles give the same results.  Numeric literals with an exponent or a  *)
(* radix prefix are outside the inputs the model draws.                    *)
(***************************************************************************)
EXTENDS Integers, Sequences, FiniteSets, TLC

VARIABLES recipes, inventory, out, rt, assigned

vars == <<recipes, inventory, out, rt, assigned>>

(***************************************************************************)
(* Bounds of the model.                                                    *)
(***************************************************************************)
MaxRecipes == 3
MaxItems == 3
MaxId == 3

(***************************************************************************)
(* Characters.                                                             *)
(***************************************************************************)
WS == {" ", "\t", "\n", "\r"}

LineTerminators == {"\n", "\r"}

Digits == <<"0", "1", "2", "3", "4", "5", "6", "7", "8", "9">>

IsDigit(c) == \E i \in 1..10 : Digits[i] = c

DigitVal(c) == (CHOOSE i \in 1..10 : Digits[i] = c) - 1

Upper == <<"A", "B", "C", "D", "E", "F", "G", "H", "I", "J", "K", "L", "M",
           "N", "O", "P", "Q", "R", "S", "T", "U", "V", "W", "X", "Y", "Z">>

Lower == <<"a", "b", "c", "d", "e", "f", "g", "h", "i", "j", "k", "l", "m",
           "n", "o", "p", "q", "r", "s", "t", "u", "v", "w", "x", "y", "z">>

ToLowerChar(c) ==
  IF \E i \in 1..26 : Upper[i] = c
  THEN Lower[CHOOSE i \in 1..26 : Upper[i] = c]
  ELSE c

\* String.prototype.toLowerCase
ToLowerCase(s) == [i \in 1..Len(s) |-> ToLowerChar(s[i])]

RECURSIVE TrimStart(_)
TrimStart(s) ==
  IF s = <<>> THEN s
  ELSE IF Head(s) \in WS THEN TrimStart(Tail(s)) ELSE s

RECURSIVE TrimEnd(_)
TrimEnd(s) ==
  IF s = <<>> THEN s
  ELSE IF s[Len(s)] \in WS THEN TrimEnd(SubSeq(s, 1, Len(s) - 1)) ELSE s

\* String.prototype.trim
Trim(s) == TrimEnd(TrimStart(s))

\* String.prototype.includes
Includes(hay, needle) ==
  \E i \in 1..(Len(hay) - Len(needle) + 1) :
    SubSeq(hay, i, i + Len(needle) - 1) = needle

AllDigits(s) == \A i \in 1..Len(s) : IsDigit(s[i])

\* the value of a run of decimal digits
RECURSIVE DecVal(_)
DecVal(s) ==
  IF s = <<>> THEN 0
  ELSE 10 * DecVal(SubSeq(s, 1, Len(s) - 1)) + DigitVal(s[Len(s)])

\* String(n) for an integer n >= 0
RECURSIVE NatToString(_)
NatToString(n) ==
  IF n < 10 THEN <<Digits[n + 1]>>
  ELSE Append(NatToString(n \div 10), Digits[(n % 10) + 1])

RECURSIVE Pow10(_)
Pow10(e) == IF e = 0 THEN 1 ELSE 10 * Pow10(e - 1)

(***************************************************************************)
(* JavaScript values of a request body: a field is absent (undefined) or   *)
(* a string.                                                               *)
(***************************************************************************)
Undef == [t |-> "undef", s |-> <<>>]

Str(s) == [t |-> "str", s |-> s]

\* String(x || "")
StrOrEmpty(x) == IF x.t = "undef" THEN <<>> ELSE x.s

\* String(x): String(undefined) is "undefined"
ToStr(x) ==
  IF x.t = "undef" THEN <<"u", "n", "d", "e", "f", "i", "n", "e", "d">>
  ELSE x.s

\* truthiness of a body field: undefined and "" are falsy
Truthy(x) == x.t = "str" /\ x.s # <<>>

(***************************************************************************)
(* Numbers.                                                                *)
(***************************************************************************)
NaN == [k |-> "nan", n |-> 0, e |-> 0]

Infinity(sign) == [k |-> "inf", n |-> sign, e |-> 0]

RECURSIVE Num(_, _)
Num(n, e) ==
  IF e > 0 /\ n % 10 = 0 THEN Num(n \div 10, e - 1)
  ELSE [k |-> "num", n |-> n, e |-> e]

\* Number.isFinite
IsFinite(x) == x.k = "num"

\* x < y, x > y on numbers; every comparison with NaN is false
NumLess(x, y) ==
  /\ x.k # "nan" /\ y.k # "nan"
  /\ IF x.k = "inf" THEN x.n < 0 /\ ~(y.k = "inf" /\ y.n < 0)
     ELSE IF y.k = "inf" THEN y.n > 0
     ELSE x.n * Pow10(y.e) < y.n * Pow10(x.e)

NumGreater(x, y) == NumLess(y, x)

NumLeq(x, y) == x.k # "nan" /\ y.k # "nan" /\ ~NumLess(y, x)

\* Math.max, Math.min on two numbers (NaN if either is NaN)
MathMax(x, y) ==
  IF x.k = "nan" \/ y.k = "nan" THEN NaN ELSE IF NumLess(x, y) THEN y ELSE x

MathMin(x, y) ==
  IF x.k = "nan" \/ y.k = "nan" THEN NaN ELSE IF NumLess(y, x) THEN y ELSE x

\* x * y on finite numbers
NumTimes(x, y) == Num(x.n * y.n, x.e + y.e)

\* Math.round on a finite number: floor(x + 1/2)
MathRound(x) == Num((2 * x.n + Pow10(x.e)) \div (2 * Pow10(x.e)), 0)

\* +(x).toFixed(2) on a finite number: the nearest multiple of 1/100, a tie
\* going away from zero
RoundTo2(x) ==
  LET a == IF x.n < 0 THEN -x.n ELSE x.n
      h == (2 * a * 100 + Pow10(x.e)) \div (2 * Pow10(x.e))
  IN Num(IF x.n < 0 THEN -h ELSE h, 2)

\* the end of the longest run of digits of s that starts at position i
\* (i - 1 when s[i] is no digit)
RECURSIVE DigitsEnd(_, _)
DigitsEnd(s, i) ==
  IF i <= Len(s) /\ IsDigit(s[i]) THEN DigitsEnd(s, i + 1) ELSE i - 1

\* the number written digits [. digits] : ip the integer digits, fp the
\* fraction digits
DecimalOf(ip, fp) == Num(DecVal(ip \o fp), Len(fp))

InfinityWord == <<"I", "n", "f", "i", "n", "i", "t", "y">>

\* the unsigned decimal literal that is a prefix of s: [len, val], len = 0
\* when s starts with none.  Forms: Infinity, digits, digits. , digits.digits,
\* .digits
LiteralPrefix(s) ==
  LET d1 == DigitsEnd(s, 1)
      dot == d1 + 1
      d2 == DigitsEnd(s, dot + 1)
      hasDot == dot <= Len(s) /\ s[dot] = "."
  IN IF Len(s) >= 8 /\ SubSeq(s, 1, 8) = InfinityWord
     THEN [len |-> 8, val |-> Infinity(1)]
     ELSE IF d1 >= 1 /\ hasDot
     THEN [len |-> d2, val |-> DecimalOf(SubSeq(s, 1, d1), SubSeq(s, dot + 1, d2))]
     ELSE IF d1 >= 1
     THEN [len |-> d1, val |-> DecimalOf(SubSeq(s, 1, d1), <<>>)]
     ELSE IF hasDot /\ d2 > dot
     THEN [len |-> d2, val |-> DecimalOf(<<>>, SubSeq(s, dot + 1, d2))]
     ELSE [len |-> 0, val |-> NaN]

Negate(x) ==
  IF x.k = "nan" THEN x
  ELSE IF x.k = "inf" THEN Infinity(-x.n)
  ELSE Num(-x.n, x.e)

\* the signed literal that is a prefix of s
SignedPrefix(s) ==
  IF s # <<>> /\ Head(s) \in {"+", "-"}
  THEN LET p == LiteralPrefix(Tail(s))
       IN IF p.len = 0 THEN p
          ELSE [len |-> p.len + 1,
                val |-> IF Head(s) = "-" THEN Negate(p.val) ELSE p.val]
  ELSE LiteralPrefix(s)

\* Number(x): undefined is NaN, a blank string is 0, a string that is a
\* numeric literal (whitespace around it allowed) is its value, any other NaN
ToNumber(x) ==
  IF x.t = "undef" THEN NaN
  ELSE LET s == Trim(x.s)
           p == SignedPrefix(s)
       IN IF s = <<>> THEN Num(0, 0)
          ELSE IF p.len = Len(s) THEN p.val ELSE NaN

\* parseFloat(x): the longest numeric-literal prefix after leading
\* whitespace, NaN when there is none
ParseFloat(x) == SignedPrefix(TrimStart(ToStr(x))).val

\* Number::toString of a finite number with at most 2 fraction digits
NumToString(x) ==
  LET a == IF x.n < 0 THEN -x.n ELSE x.n
      ip == NatToString(a \div Pow10(x.e))
      fr == a % Pow10(x.e)
      fs == NatToString(fr)
      fp == [i \in 1..(x.e - Len(fs)) |-> "0"] \o fs
      body == IF x.e = 0 THEN ip ELSE ip \o <<".">> \o fp
  IN IF x.n < 0 THEN <<"-">> \o body ELSE body

(***************************************************************************)
(* Shared helpers of the two repositories.                                 *)
(***************************************************************************)
NoErr == ""

NoRecord == [none |-> TRUE]

\* String.prototype.padStart(len, "0")
PadStart(s, len) == [i \in 1..(len - Len(s)) |-> "0"] \o s

\* /^<prefix>-\d{5,}$/.test(s): five digits or more
MatchesIdOrLonger(prefix, s) ==
  /\ Len(s) >= 7
  /\ s[1] = prefix
  /\ s[2] = "-"
  /\ AllDigits(SubSeq(s, 3, Len(s)))

\* /^<prefix>-\d{5}$/.test(s)
MatchesId(prefix, s) ==
  /\ Len(s) = 7
  /\ s[1] = prefix
  /\ s[2] = "-"
  /\ AllDigits(SubSeq(s, 3, 7))

\* /^\d{4}-\d{2}-\d{2}$/.test(s)
isYmd(s) ==
  /\ Len(s) = 10
  /\ \A i \in 1..10 : IF i \in {5, 8} THEN s[i] = "-" ELSE IsDigit(s[i])

\* the numeric suffix a record's id counts for when the next id is generated
IdSuffix(prefix, id) ==
  IF MatchesId(prefix, id) THEN DecVal(SubSeq(id, 3, 7)) ELSE 0

\* ns.reduce((a, b) => Math.max(a, b), 0)
RECURSIVE ReduceMax(_)
ReduceMax(ns) ==
  IF ns = <<>> THEN 0
  ELSE LET m == ReduceMax(Tail(ns))
       IN IF Head(ns) > m THEN Head(ns) ELSE m

\* xs.findIndex(test), given as the sequence hits of the test's results on
\* the elements of xs; 0 stands for -1
FirstIndex(hits) ==
  IF \E i \in 1..Len(hits) : hits[i]
  THEN CHOOSE i \in 1..Len(hits) :
         hits[i] /\ \A j \in 1..(i - 1) : ~hits[j]
  ELSE 0

\* xs.splice(i, 2): one element too many
SpliceTwo(xs, i) ==
  [removed |-> SubSeq(xs, i, IF i < Len(xs) THEN i + 1 ELSE i),
   rest |-> SubSeq(xs, 1, i - 1) \o SubSeq(xs, i + 2, Len(xs))]

\* xs.splice(i, 1): the elements removed and the array afterwards
Splice(xs, i) ==
  [removed |-> SubSeq(xs, i, i),
   rest |-> SubSeq(xs, 1, i - 1) \o SubSeq(xs, i + 1, Len(xs))]

\* a list of strings with its empty entries left in
KeepEmpty(xs) == xs

\* xs.filter(Boolean) on a list of strings
RECURSIVE DropEmpty(_)
DropEmpty(xs) ==
  IF xs = <<>> THEN <<>>
  ELSE IF Head(xs) = <<>> THEN DropEmpty(Tail(xs))
  ELSE <<Head(xs)>> \o DropEmpty(Tail(xs))

\* s.split(/\r?\n|,/), from position i on with cur the piece under way
RECURSIVE SplitFrom(_, _, _)
SplitFrom(s, cur, i) ==
  IF i > Len(s) THEN <<cur>>
  ELSE IF s[i] = "," \/ s[i] = "\n" THEN <<cur>> \o SplitFrom(s, <<>>, i + 1)
  ELSE IF s[i] = "\r" /\ i < Len(s) /\ s[i + 1] = "\n"
  THEN <<cur>> \o SplitFrom(s, <<>>, i + 2)
  ELSE SplitFrom(s, Append(cur, s[i]), i + 1)

(***************************************************************************)
(* models/recipe.js                                                        *)
(***************************************************************************)
Difficulties ==
  {<<"E", "a", "s", "y">>, <<"M", "e", "d", "i", "u", "m">>,
   <<"H", "a", "r", "d">>}

\* Recipe.formatId without the padding
formatIdUnpadded(n) == <<"R", "-">> \o NatToString(n)

\* Recipe.formatId
formatId(n) == <<"R", "-">> \o PadStart(NatToString(n), 5)

\* Recipe.parseList
parseList(x) ==
  LET pieces == SplitFrom(StrOrEmpty(x), <<>>, 1)
  IN DropEmpty([i \in 1..Len(pieces) |-> Trim(pieces[i])])

\* new Recipe(raw): [err, rec].  raw is the object Recipe.add builds: its
\* strings are strings, its numbers numbers, its lists arrays.
RecipeConstructor(raw) ==
  LET Fail(msg) == [err |-> msg, rec |-> NoRecord]
  IN IF ~MatchesId("R", raw.recipeId)
     THEN Fail("recipeId must be in 'R-00001' format")
     ELSE IF Trim(raw.title) = <<>> THEN Fail("title is required")
     ELSE IF Trim(raw.chef) = <<>> THEN Fail("chef is required")
     ELSE IF ~IsFinite(raw.prepTime) \/ NumLeq(raw.prepTime, Num(0, 0))
     THEN Fail("prepTime must be a number > 0")
     ELSE IF raw.difficulty \notin Difficulties
     THEN Fail("difficulty must be one of 'Easy' | 'Medium' | 'Hard'")
     ELSE IF ~IsFinite(raw.servings) \/ NumLeq(raw.servings, Num(0, 0))
     THEN Fail("servings must be a number > 0")
     ELSE IF ~isYmd(raw.createdDate)
     THEN Fail("createdDate must be in 'YYYY-MM-DD' format")
     ELSE [err |-> NoErr,
           rec |-> [recipeId |-> raw.recipeId,
                    title |-> Trim(raw.title),
                    chef |-> Trim(raw.chef),
                    ingredients |-> raw.ingredients,
                    instructions |-> raw.instructions,
                    mealType |-> Trim(raw.mealType),
                    cuisineType |-> Trim(raw.cuisineType),
                    prepTime |-> raw.prepTime,
                    difficulty |-> raw.difficulty,
                    servings |-> raw.servings,
                    createdDate |-> raw.createdDate]]

\* the next number taken from the length of the collection
RecipeNextNumByCount(rs) == Len(rs) + 1

\* the next number without the increment
RecipeNextNumNoIncrement(rs) ==
  ReduceMax([i \in 1..Len(rs) |-> IdSuffix("R", rs[i].recipeId)])

\* Recipe.add: the number of the next recipeId
RecipeNextNum(rs) ==
  ReduceMax([i \in 1..Len(rs) |-> IdSuffix("R", rs[i].recipeId)]) + 1

\* Recipe.add: where the validated record goes
RecipePush(rs, rec) == Append(rs, rec)

\* Recipe.add throwing after a push of the unvalidated record
RecipeThrowAfterPush(rs, msg) ==
  [err |-> msg, ret |-> NoRecord,
   recipes |-> Append(rs, [recipeId |-> <<>>])]

\* Recipe.add throws: every throw comes before the push, so the array is
\* as it was
RecipeThrow(rs, msg) == [err |-> msg, ret |-> NoRecord, recipes |-> rs]

\* Recipe.add(rs, payload) on the day today: [err, ret, recipes], recipes
\* being the collection afterwards
RecipeAdd(rs, payload, today) ==
  LET t == Trim(StrOrEmpty(payload.title))
      chefValue == Trim(StrOrEmpty(payload.chef))
      newRecipe ==
        [recipeId |-> formatId(RecipeNextNum(rs)),
         title |-> t,
         chef |-> chefValue,
         mealType |-> Trim(StrOrEmpty(payload.mealType)),
         cuisineType |-> Trim(StrOrEmpty(payload.cuisineType)),
         prepTime |-> ToNumber(payload.prepTime),
         difficulty |-> Trim(StrOrEmpty(payload.difficulty)),
         servings |-> ToNumber(payload.servings),
         createdDate |-> today,
         ingredients |-> parseList(payload.ingredients),
         instructions |-> parseList(payload.instructions)]
      validated == RecipeConstructor(newRecipe)
      Fail(msg) == RecipeThrow(rs, msg)
  IN IF t = <<>> THEN Fail("title is required")
     ELSE IF chefValue = <<>> THEN Fail("chef is required")
     ELSE IF validated.err # NoErr THEN Fail(validated.err)
     ELSE [err |-> NoErr, ret |-> validated.rec,
           recipes |-> RecipePush(rs, validated.rec)]

\* Recipe.deleteById(rs, recipeId): [ret, recipes], ret the removed record
\* or NoRecord for null
RecipeDeleteById(rs, recipeId) ==
  LET rid == StrOrEmpty(recipeId)
      idx == FirstIndex([i \in 1..Len(rs) |-> rs[i].recipeId = rid])
      s == Splice(rs, idx)
  IN IF idx = 0 THEN [ret |-> NoRecord, recipes |-> rs]
     ELSE [ret |-> s.removed[1], recipes |-> s.rest]

\* data/sampleData.js: the recipes the process starts with
SeedRecipes == <<
  [
    recipeId |->
      <<"R", "-", "0", "0", "0", "0", "1">>,
    title |->
      <<"C", "l", "a", "s", "s", "i", "c", " ", "S", "p", "a", "g", "h", "e",
        "t", "t", "i", " ", "C", "a", "r", "b", "o", "n", "a", "r", "a">>,
    chef |->
      <<"T", "a", "k", "u", "m", "i", "W", "a", "t", "a", "n", "a", "b", "e">>,
    ingredients |-> <<
        <<"4", "0", "0", "g", " ", "s", "p", "a", "g", "h", "e", "t", "t",
          "i">>,
        <<"2", "0", "0", "g", " ", "p", "a", "n", "c", "e", "t", "t", "a">>,
        <<"4", " ", "l", "a", "r", "g", "e", " ", "e", "g", "g", "s">>,
        <<"1", "0", "0", "g", " ", "P", "e", "c", "o", "r", "i", "n", "o",
          " ", "R", "o", "m", "a", "n", "o">>,
        <<"B", "l", "a", "c", "k", " ", "p", "e", "p", "p", "e", "r">>>>,
    instructions |-> <<
        <<"B", "o", "i", "l", " ", "s", "a", "l", "t", "e", "d", " ", "w",
          "a", "t", "e", "r", " ", "f", "o", "r", " ", "p", "a", "s", "t",
          "a">>,
        <<"C", "o", "o", "k", " ", "p", "a", "n", "c", "e", "t", "t", "a",
          " ", "u", "n", "t", "i", "l", " ", "c", "r", "i", "s", "p", "y">>,
        <<"W", "h", "i", "s", "k", " ", "e", "g", "g", "s", " ", "w", "i",
          "t", "h", " ", "c", "h", "e", "e", "s", "e">>,
        <<"C", "o", "m", "b", "i", "n", "e", " ", "h", "o", "t", " ", "p",
          "a", "s", "t", "a", " ", "w", "i", "t", "h", " ", "p", "a", "n",
          "c", "e", "t", "t", "a">>,
        <<"A", "d", "d", " ", "e", "g", "g", " ", "m", "i", "x", "t", "u",
          "r", "e", " ", "o", "f", "f", " ", "h", "e", "a", "t">>>>,
    mealType |->
      <<"D", "i", "n", "n", "e", "r">>,
    cuisineType |->
      <<"I", "t", "a", "l", "i", "a", "n">>,
    prepTime |-> Num(25, 0),
    difficulty |->
      <<"M", "e", "d", "i", "u", "m">>,
    servings |-> Num(4, 0),
    createdDate |->
      <<"2", "0", "2", "5", "-", "0", "7", "-", "2", "0">>
  ],
  [
    recipeId |->
      <<"R", "-", "0", "0", "0", "0", "2">>,
    title |->
      <<"A", "v", "o", "c", "a", "d", "o", " ", "T", "o", "a", "s", "t", " ",
        "S", "u", "p", "r", "e", "m", "e">>,
    chef |->
      <<"T", "a", "k", "u", "m", "i", "W", "a", "t", "a", "n", "a", "b", "e">>,
    ingredients |-> <<
        <<"2", " ", "s", "l", "i", "c", "e", "s", " ", "s", "o", "u", "r",
          "d", "o", "u", "g", "h", " ", "b", "r", "e", "a", "d">>,
        <<"1", " ", "r", "i", "p", "e", " ", "a", "v", "o", "c", "a", "d",
          "o">>,
        <<"1", " ", "t", "o", "m", "a", "t", "o">>,
        <<"F", "e", "t", "a", " ", "c", "h", "e", "e", "s", "e">>,
        <<"O", "l", "i", "v", "e", " ", "o", "i", "l">>,
        <<"L", "e", "m", "o", "n", " ", "j", "u", "i", "c", "e">>>>,
    instructions |-> <<
        <<"T", "o", "a", "s", "t", " ", "b", "r", "e", "a", "d", " ", "u",
          "n", "t", "i", "l", " ", "g", "o", "l", "d", "e", "n">>,
        <<"M", "a", "s", "h", " ", "a", "v", "o", "c", "a", "d", "o", " ",
          "w", "i", "t", "h", " ", "l", "e", "m", "o", "n">>,
        <<"S", "l", "i", "c", "e", " ", "t", "o", "m", "a", "t", "o">>,
        <<"S", "p", "r", "e", "a", "d", " ", "a", "v", "o", "c", "a", "d",
          "o", " ", "o", "n", " ", "t", "o", "a", "s", "t">>,
        <<"T", "o", "p", " ", "w", "i", "t", "h", " ", "t", "o", "m", "a",
          "t", "o", " ", "a", "n", "d", " ", "f", "e", "t", "a">>>>,
    mealType |->
      <<"B", "r", "e", "a", "k", "f", "a", "s", "t">>,
    cuisineType |->
      <<"M", "e", "d", "i", "t", "e", "r", "r", "a", "n", "e", "a", "n">>,
    prepTime |-> Num(10, 0),
    difficulty |->
      <<"E", "a", "s", "y">>,
    servings |-> Num(2, 0),
    createdDate |->
      <<"2", "0", "2", "5", "-", "0", "7", "-", "2", "1">>
  ]
  >>

\* data/sampleData.js: the inventory the process starts with
SeedInventory == <<
  [
    inventoryId |->
      <<"I", "-", "0", "0", "0", "0", "1">>,
    userId |->
      <<"T", "a", "k", "u", "m", "i", "W", "a", "t", "a", "n", "a", "b", "e">>,
    ingredientName |->
      <<"F", "r", "e", "s", "h", " ", "T", "o", "m", "a", "t", "o", "e", "s">>,
    quantity |-> Num(8, 0),
    unit |->
      <<"p", "i", "e", "c", "e", "s">>,
    category |->
      <<"V", "e", "g", "e", "t", "a", "b", "l", "e", "s">>,
    purchaseDate |->
      <<"2", "0", "2", "5", "-", "0", "7", "-", "1", "8">>,
    expirationDate |->
      <<"2", "0", "2", "5", "-", "0", "7", "-", "2", "5">>,
    location |->
      <<"F", "r", "i", "d", "g", "e">>,
    cost |-> Num(64, 1),
    createdDate |->
      <<"2", "0", "2", "5", "-", "0", "7", "-", "1", "8">>
  ],
  [
    inventoryId |->
      <<"I", "-", "0", "0", "0", "0", "2">>,
    userId |->
      <<"T", "a", "k", "u", "m", "i", "W", "a", "t", "a", "n", "a", "b", "e">>,
    ingredientName |->
      <<"S", "p", "a", "g", "h", "e", "t", "t", "i", " ", "P", "a", "s", "t",
        "a">>,
    quantity |-> Num(2, 0),
    unit |->
      <<"k", "g">>,
    category |->
      <<"G", "r", "a", "i", "n", "s">>,
    purchaseDate |->
      <<"2", "0", "2", "5", "-", "0", "7", "-", "1", "5">>,
    expirationDate |->
      <<"2", "0", "2", "5", "-", "1", "2", "-", "1", "5">>,
    location |->
      <<"P", "a", "n", "t", "r", "y">>,
    cost |-> Num(89, 1),
    createdDate |->
      <<"2", "0", "2", "5", "-", "0", "7", "-", "2", "2">>
  ]
  >>

\* a request body that Recipe.add accepts
RecipeBodyA ==
  [title |-> Str(<<"S", "o", "u", "p">>),
   chef |-> Str(<<"A", "l">>),
   mealType |-> Str(<<"L", "u", "n", "c", "h">>),
   cuisineType |-> Str(<<"T", "h", "a", "i">>),
   prepTime |-> Str(<<"1", "0">>),
   difficulty |-> Str(<<"E", "a", "s", "y">>),
   servings |-> Str(<<"2">>),
   ingredients |->
     Str(<<"2", " ", "e", "g", "g", "s", ",", " ", "s", "a", "l", "t", "\n", "1", ".", "5", " ", "c", "u", "p", "s", " ", "m", "i", "l", "k">>),
   instructions |->
     Str(<<"M", "i", "x", "\r", "\n", "B", "o", "i", "l">>)]

\* another one: padded title and difficulty, fractional numbers, no meal or
\* cuisine type, no ingredients, instructions that split into nothing
RecipeBodyB ==
  [title |-> Str(<<" ", "S", "t", "e", "w", " ">>),
   chef |-> Str(<<"B", "o">>),
   mealType |-> Undef,
   cuisineType |-> Undef,
   prepTime |-> Str(<<"2", ".", "5">>),
   difficulty |-> Str(<<" ", "H", "a", "r", "d", " ">>),
   servings |-> Str(<<"0", ".", "1">>),
   ingredients |-> Undef,
   instructions |-> Str(<<",", " ", ",">>)]

\* the request bodies the model draws for Recipe.add: the two above and
\* ones that each break one rule
RecipeBodies ==
  {RecipeBodyA, RecipeBodyB,
   [RecipeBodyA EXCEPT !.title = Undef],
   [RecipeBodyA EXCEPT !.title = Str(<<" ", " ">>)],
   [RecipeBodyA EXCEPT !.chef = Undef],
   [RecipeBodyA EXCEPT !.prepTime = Str(<<"a", "b", "c">>)],
   [RecipeBodyA EXCEPT !.difficulty = Str(<<"e", "a", "s", "y">>)],
   [RecipeBodyA EXCEPT !.servings = Str(<<"0">>)]}

\* the date new Date().toISOString().slice(0, 10) gives during the run
Today == <<"2", "0", "2", "5", "-", "0", "7", "-", "2", "3">>

(***************************************************************************)
(* models/inventoryItem.js                                                 *)
(***************************************************************************)
\* the characters the model's strings are made of, in code-unit order
CodeOrder ==
  <<"\t", "\n", "\r", " ", "+", ",", "-", ".",
    "0", "1", "2", "3", "4", "5", "6", "7", "8", "9",
    "A", "B", "C", "D", "E", "F", "G", "H", "I", "J", "K", "L", "M",
    "N", "O", "P", "Q", "R", "S", "T", "U", "V", "W", "X", "Y", "Z",
    "a", "b", "c", "d", "e", "f", "g", "h", "i", "j", "k", "l", "m",
    "n", "o", "p", "q", "r", "s", "t", "u", "v", "w", "x", "y", "z">>

CodeOf(c) == CHOOSE i \in 1..Len(CodeOrder) : CodeOrder[i] = c

\* a >= b on strings
RECURSIVE StrGreaterOrEqual(_, _)
StrGreaterOrEqual(a, b) ==
  IF b = <<>> THEN TRUE
  ELSE IF a = <<>> THEN FALSE
  ELSE IF Head(a) # Head(b) THEN CodeOf(Head(a)) > CodeOf(Head(b))
  ELSE StrGreaterOrEqual(Tail(a), Tail(b))

\* a > b on strings: the comparison of their code units, left to right
RECURSIVE StrGreater(_, _)
StrGreater(a, b) ==
  IF a = <<>> THEN FALSE
  ELSE IF b = <<>> THEN TRUE
  ELSE IF Head(a) # Head(b) THEN CodeOf(Head(a)) > CodeOf(Head(b))
  ELSE StrGreater(Tail(a), Tail(b))

\* InventoryItem.formatId
InventoryFormatId(n) == <<"I", "-">> \o PadStart(NatToString(n), 5)

\* the constructor checking ingredientName before userId
InventoryItemConstructorNameFirst(raw) ==
  LET Fail(msg) == [err |-> msg, rec |-> NoRecord]
      Neg(x) == ~IsFinite(x) \/ NumLess(x, Num(0, 0))
  IN IF ~MatchesId("I", raw.inventoryId)
     THEN Fail("inventoryId must be in 'I-00001' format")
     ELSE IF Trim(raw.ingredientName) = <<>>
     THEN Fail("ingredientName is required")
     ELSE IF Trim(raw.userId) = <<>> THEN Fail("userId is required")
     ELSE IF Trim(raw.unit) = <<>> THEN Fail("unit is required")
     ELSE IF Trim(raw.category) = <<>> THEN Fail("category is required")
     ELSE IF Trim(raw.location) = <<>> THEN Fail("location is required")
     ELSE IF Neg(raw.quantity)
     THEN Fail("quantity must be a non-negative number")
     ELSE IF Neg(raw.cost) THEN Fail("cost must be a number >= 0")
     ELSE IF raw.purchaseDate # <<>> /\ ~isYmd(raw.purchaseDate)
     THEN Fail("purchaseDate must be in 'YYYY-MM-DD' format")
     ELSE IF raw.expirationDate # <<>> /\ ~isYmd(raw.expirationDate)
     THEN Fail("expirationDate must be in 'YYYY-MM-DD' format")
     ELSE IF ~isYmd(raw.createdDate)
     THEN Fail("createdDate must be in 'YYYY-MM-DD' format")
     ELSE IF /\ raw.purchaseDate # <<>>
             /\ raw.expirationDate # <<>>
             /\ StrGreater(raw.purchaseDate, raw.expirationDate)
     THEN Fail("expirationDate must not be earlier than purchaseDate")
     ELSE [err |-> NoErr,
           rec |-> [inventoryId |-> raw.inventoryId,
                    userId |-> Trim(raw.userId),
                    ingredientName |-> Trim(raw.ingredientName),
                    quantity |-> raw.quantity,
                    unit |-> Trim(raw.unit),
                    category |-> Trim(raw.category),
                    purchaseDate |-> raw.purchaseDate,
                    expirationDate |-> raw.expirationDate,
                    location |-> Trim(raw.location),
                    cost |-> raw.cost,
                    createdDate |-> raw.createdDate]]

\* new InventoryItem(raw): [err, rec].  raw is the object InventoryItem.add
\* builds; an empty purchaseDate or expirationDate is a falsy one.
InventoryItemConstructor(raw) ==
  LET Fail(msg) == [err |-> msg, rec |-> NoRecord]
      Neg(x) == ~IsFinite(x) \/ NumLess(x, Num(0, 0))
  IN IF ~MatchesId("I", raw.inventoryId)
     THEN Fail("inventoryId must be in 'I-00001' format")
     ELSE IF Trim(raw.userId) = <<>> THEN Fail("userId is required")
     ELSE IF Trim(raw.ingredientName) = <<>>
     THEN Fail("ingredientName is required")
     ELSE IF Trim(raw.unit) = <<>> THEN Fail("unit is required")
     ELSE IF Trim(raw.category) = <<>> THEN Fail("category is required")
     ELSE IF Trim(raw.location) = <<>> THEN Fail("location is required")
     ELSE IF Neg(raw.quantity)
     THEN Fail("quantity must be a non-negative number")
     ELSE IF Neg(raw.cost) THEN Fail("cost must be a number >= 0")
     ELSE IF raw.purchaseDate # <<>> /\ ~isYmd(raw.purchaseDate)
     THEN Fail("purchaseDate must be in 'YYYY-MM-DD' format")
     ELSE IF raw.expirationDate # <<>> /\ ~isYmd(raw.expirationDate)
     THEN Fail("expirationDate must be in 'YYYY-MM-DD' format")
     ELSE IF ~isYmd(raw.createdDate)
     THEN Fail("createdDate must be in 'YYYY-MM-DD' format")
     ELSE IF /\ raw.purchaseDate # <<>>
             /\ raw.expirationDate # <<>>
             /\ StrGreater(raw.purchaseDate, raw.expirationDate)
     THEN Fail("expirationDate must not be earlier than purchaseDate")
     ELSE [err |-> NoErr,
           rec |-> [inventoryId |-> raw.inventoryId,
                    userId |-> Trim(raw.userId),
                    ingredientName |-> Trim(raw.ingredientName),
                    quantity |-> raw.quantity,
                    unit |-> Trim(raw.unit),
                    category |-> Trim(raw.category),
                    purchaseDate |-> raw.purchaseDate,
                    expirationDate |-> raw.expirationDate,
                    location |-> Trim(raw.location),
                    cost |-> raw.cost,
                    createdDate |-> raw.createdDate]]

\* InventoryItem.add: the number of the next inventoryId
InventoryNextNum(items) ==
  ReduceMax([i \in 1..Len(items) |-> IdSuffix("I", items[i].inventoryId)]) + 1

\* InventoryItem.add: where the validated item goes
InventoryPush(items, rec) == Append(items, rec)

\* a || b on body fields
OrElse(a, b) == IF Truthy(a) THEN a ELSE b

\* a ?? b on body fields
Coalesce(a, b) == IF a.t = "undef" THEN b ELSE a

\* InventoryItem.add throws: every throw comes before the push
InventoryThrow(items, msg) ==
  [err |-> msg, ret |-> NoRecord, items |-> items]

\* InventoryItem.add(items, payload) on the day today: [err, ret, items]
InventoryAdd(items, payload, today) ==
  LET ingName ==
        Trim(StrOrEmpty(OrElse(payload.ingredientName, payload.name)))
      uid == Trim(StrOrEmpty(payload.userId))
      newItemRaw ==
        [inventoryId |-> InventoryFormatId(InventoryNextNum(items)),
         userId |-> uid,
         ingredientName |-> ingName,
         quantity |-> ToNumber(payload.quantity),
         unit |-> Trim(StrOrEmpty(payload.unit)),
         category |-> Trim(StrOrEmpty(payload.category)),
         purchaseDate |-> OrElse(payload.purchaseDate, Str(today)).s,
         expirationDate |->
           StrOrEmpty(OrElse(payload.expirationDate, payload.expiry)),
         location |->
           Trim(OrElse(payload.location, Str(<<"U", "n", "k", "n", "o", "w", "n">>)).s),
         cost |->
           ToNumber(Coalesce(payload.cost,
                             Coalesce(payload.pricePerUnit, Str(<<"0">>)))),
         createdDate |-> OrElse(payload.createdDate, Str(today)).s]
      validated == InventoryItemConstructor(newItemRaw)
      Fail(msg) == InventoryThrow(items, msg)
  IN IF ingName = <<>> THEN Fail("ingredientName (or name) is required")
     ELSE IF uid = <<>> THEN Fail("userId is required")
     ELSE IF validated.err # NoErr THEN Fail(validated.err)
     ELSE [err |-> NoErr, ret |-> validated.rec,
           items |-> InventoryPush(items, validated.rec)]

\* InventoryItem.deleteById(items, inventoryId): [ret, items]
InventoryDeleteById(items, inventoryId) ==
  LET iid == StrOrEmpty(inventoryId)
      idx == FirstIndex([i \in 1..Len(items) |-> items[i].inventoryId = iid])
      s == Splice(items, idx)
  IN IF idx = 0 THEN [ret |-> NoRecord, items |-> items]
     ELSE [ret |-> s.removed[1], items |-> s.rest]

(***************************************************************************)
(* middleware/validators.js and the inventory route of the server          *)
(***************************************************************************)
\* x?.trim() is falsy: x is absent or blank
Blank(x) == x.t = "undef" \/ Trim(x.s) = <<>>

\* numNZ(v): !isNaN(v) && Number(v) >= 0
numNZ(v) == ToNumber(v).k # "nan" /\ NumLeq(Num(0, 0), ToNumber(v))

\* validateInventoryBody: the message of the 400 response, NoErr when the
\* request goes on to the handler
validateInventoryBody(body) ==
  IF Blank(body.ingredientName) THEN "ingredientName is required"
  ELSE IF Blank(body.category) THEN "category is required"
  ELSE IF Blank(body.unit) THEN "unit is required"
  ELSE IF Blank(body.location) THEN "location is required"
  ELSE IF ~numNZ(body.quantity) THEN "quantity must be >= 0"
  ELSE IF ~numNZ(body.cost) THEN "cost must be >= 0"
  ELSE IF Truthy(body.expirationDate) /\ ~isYmd(body.expirationDate.s)
  THEN "expirationDate must be YYYY-MM-DD"
  ELSE NoErr

\* a check that lets 0 through
posOrZero(v) == IsFinite(ToNumber(v)) /\ NumLeq(Num(0, 0), ToNumber(v))

\* pos(v) of validateRecipeBody: Number.isFinite(Number(v)) && Number(v) > 0
pos(v) == IsFinite(ToNumber(v)) /\ NumGreater(ToNumber(v), Num(0, 0))

\* validateRecipeBody on a body of string fields: the message of the 400
\* response, NoErr when the request goes on to the handler
validateRecipeBody(body) ==
  IF Blank(body.title) THEN "Title is required"
  ELSE IF Blank(body.chef) THEN "Chef is required"
  ELSE IF Blank(body.mealType) THEN "Meal type is required"
  ELSE IF Blank(body.cuisineType) THEN "Cuisine type is required"
  ELSE IF ~pos(body.prepTime) THEN "prepTime must be a positive number"
  ELSE IF body.difficulty.t = "undef" \/ body.difficulty.s \notin Difficulties
  THEN "difficulty must be Easy/Medium/Hard"
  ELSE IF ~pos(body.servings) THEN "servings must be a positive number"
  ELSE IF Trim(StrOrEmpty(body.ingredients)) = <<>>
  THEN "ingredients is required"
  ELSE IF Trim(StrOrEmpty(body.instructions)) = <<>>
  THEN "instructions is required"
  ELSE NoErr

\* app.post("/recipe-1", validateRecipeBody, handler): [status, layer, err,
\* recipes], layer telling which of the two validations answered 400
PostRecipe(rs, body, today) ==
  LET v == validateRecipeBody(body)
      r == RecipeAdd(rs, body, today)
  IN IF v # NoErr
     THEN [status |-> 400, layer |-> "outer", err |-> v, recipes |-> rs]
     ELSE IF r.err # NoErr
     THEN [status |-> 400, layer |-> "inner", err |-> r.err, recipes |-> rs]
     ELSE [status |-> 303, layer |-> "none", err |-> NoErr,
           recipes |-> r.recipes]

\* the bodies the model draws for the recipe route: those of Recipe.add, and
\* ones that only one of the two validations refuses or that come padded
RouteBodies ==
  RecipeBodies \cup
    {[RecipeBodyA EXCEPT !.cuisineType = Str(<<" ">>)],
     [RecipeBodyA EXCEPT !.ingredients = Undef],
     [RecipeBodyA EXCEPT !.difficulty = Str(<<" ", "E", "a", "s", "y">>)],
     [RecipeBodyA EXCEPT !.prepTime = Str(<<" ", "7", " ">>)],
     [RecipeBodyA EXCEPT !.servings = Str(<<"2", ".", "5">>),
                         !.instructions = Str(<<",", "B", "o", "i", "l", ",">>)]}

\* the identity the inventory route gives a body that has no userId
DefaultUserId ==
  <<"T", "a", "k", "u", "m", "i", "W", "a", "t", "a", "n", "a", "b", "e", "-", "0", "0", "0", "0", "0", "0", "0", "1">>

\* the handler passing the body on as it came
WithoutDefaultUserId(body) == body

\* app.post("/inventory-00000001"): the body the handler passes to
\* InventoryItem.add
WithDefaultUserId(body) ==
  IF ~Truthy(body.userId) THEN [body EXCEPT !.userId = Str(DefaultUserId)]
  ELSE body

\* app.post("/inventory-00000001", validateInventoryBody, handler):
\* [status, err, items]
PostInventory(items, body, today) ==
  LET v == validateInventoryBody(body)
      r == InventoryAdd(items, WithDefaultUserId(body), today)
  IN IF v # NoErr THEN [status |-> 400, err |-> v, items |-> items]
     ELSE IF r.err # NoErr THEN [status |-> 400, err |-> r.err, items |-> items]
     ELSE [status |-> 303, err |-> NoErr, items |-> r.items]


\* a form body the inventory route accepts; it names no userId
InventoryBodyA ==
  [userId |-> Undef,
   name |-> Undef,
   ingredientName |-> Str(<<"R", "i", "c", "e">>),
   category |-> Str(<<"G", "r", "a", "i", "n", "s">>),
   location |-> Str(<<"P", "a", "n", "t", "r", "y">>),
   quantity |-> Str(<<"2">>),
   unit |-> Str(<<"k", "g">>),
   pricePerUnit |-> Undef,
   cost |-> Str(<<"3", ".", "5">>),
   expiry |-> Undef,
   expirationDate |-> Str(<<"2", "0", "2", "5", "-", "1", "2", "-", "0", "1">>),
   purchaseDate |-> Undef,
   createdDate |-> Undef]

\* the bodies the model draws for the inventory: with and without a userId,
\* with the aliases InventoryItem.add accepts, and ones that break a rule
InventoryBodies ==
  {InventoryBodyA,
   [InventoryBodyA EXCEPT !.userId = Str(<<"A", "n", "n">>)],
   [InventoryBodyA EXCEPT !.userId = Str(<<>>)],
   [InventoryBodyA EXCEPT !.userId = Str(<<" ">>)],
   [InventoryBodyA EXCEPT !.userId = Str(<<"A", "n", "n">>), !.ingredientName = Undef,
                          !.name = Str(<<"O", "a", "t", "s">>), !.cost = Undef,
                          !.pricePerUnit = Str(<<"1", ".", "2">>), !.expirationDate = Undef,
                          !.expiry = Str(<<"2", "0", "2", "5", "-", "0", "7", "-", "2", "3">>), !.location = Undef],
   [InventoryBodyA EXCEPT !.ingredientName = Undef],
   [InventoryBodyA EXCEPT !.userId = Str(<<"A", "n", "n">>), !.unit = Undef],
   [InventoryBodyA EXCEPT !.quantity = Str(<<"-", "1">>)],
   [InventoryBodyA EXCEPT !.userId = Str(<<"A", "n", "n">>),
                          !.expirationDate = Str(<<"2", "0", "2", "5", "-", "0", "7", "-", "0", "1">>)],
   [InventoryBodyA EXCEPT !.userId = Str(<<"A", "n", "n">>),
                          !.purchaseDate = Str(<<"2", "0", "2", "5", "-", "0", "7", "-", "0", "5">>),
                          !.expirationDate = Str(<<"2", "0", "2", "5", "-", "0", "7", "-", "0", "5">>)]}

\* a well-formed candidate for new InventoryItem(...)
InventoryCandidateA ==
  [inventoryId |-> <<"I", "-", "0", "0", "0", "0", "3">>,
   userId |-> <<"A", "n", "n">>,
   ingredientName |-> <<"R", "i", "c", "e">>,
   quantity |-> Num(2, 0),
   unit |-> <<"k", "g">>,
   category |-> <<"G", "r", "a", "i", "n", "s">>,
   purchaseDate |-> <<"2", "0", "2", "5", "-", "0", "7", "-", "0", "5">>,
   expirationDate |-> <<"2", "0", "2", "5", "-", "0", "7", "-", "0", "5">>,
   location |-> <<"P", "a", "n", "t", "r", "y">>,
   cost |-> Num(35, 1),
   createdDate |-> Today]

\* the most rules one drawn candidate of the constructor breaks at once
MaxFaults == 2

\* InventoryCandidateA with the rules numbered in F broken, the rules
\* numbered in the order of the constructor's checks
FaultyCandidate(F) ==
  [inventoryId |->
     IF 1 \in F THEN <<"I", "-", "3">> ELSE InventoryCandidateA.inventoryId,
   userId |-> IF 2 \in F THEN <<" ">> ELSE InventoryCandidateA.userId,
   ingredientName |->
     IF 3 \in F THEN <<>> ELSE InventoryCandidateA.ingredientName,
   unit |-> IF 4 \in F THEN <<>> ELSE InventoryCandidateA.unit,
   category |-> IF 5 \in F THEN <<" ">> ELSE InventoryCandidateA.category,
   location |-> IF 6 \in F THEN <<>> ELSE InventoryCandidateA.location,
   quantity |-> IF 7 \in F THEN Num(0 - 1, 0) ELSE InventoryCandidateA.quantity,
   cost |-> IF 8 \in F THEN NaN ELSE InventoryCandidateA.cost,
   purchaseDate |->
     IF 9 \in F THEN <<"2", "0", "2", "5", "/", "0", "7", "/", "0", "5">>
     ELSE InventoryCandidateA.purchaseDate,
   expirationDate |->
     IF 10 \in F THEN <<"2", "0", "2", "5", "-", "7", "-", "1">>
     ELSE IF 12 \in F THEN <<"2", "0", "2", "5", "-", "0", "7", "-", "0", "1">>
     ELSE InventoryCandidateA.expirationDate,
   createdDate |-> IF 11 \in F THEN <<>> ELSE InventoryCandidateA.createdDate]

\* the dates the model draws for a candidate: none, and three days
CandidateDates ==
  {<<>>,
   <<"2", "0", "2", "5", "-", "0", "7", "-", "0", "1">>,
   <<"2", "0", "2", "5", "-", "0", "7", "-", "0", "5">>,
   <<"2", "0", "2", "5", "-", "1", "0", "-", "0", "2">>}

\* the candidates the model draws for the constructor: ones that break up
\* to MaxFaults rules, and well-formed ones with every pair of dates
InventoryCandidates ==
  {FaultyCandidate(F) : F \in {G \in SUBSET (1..12) : Cardinality(G) <= MaxFaults}}
    \cup {[InventoryCandidateA EXCEPT !.purchaseDate = p, !.expirationDate = e] :
            p \in CandidateDates, e \in CandidateDates}

\* a well-formed body for InventoryItem.add
InventoryBodyB == [InventoryBodyA EXCEPT !.userId = Str(<<"A", "n", "n">>)]

\* InventoryBodyB with the rules numbered in F broken
FaultyBody(F) ==
  [userId |-> IF 1 \in F THEN Undef ELSE InventoryBodyB.userId,
   name |-> Undef,
   ingredientName |-> IF 2 \in F THEN Str(<<" ">>) ELSE InventoryBodyB.ingredientName,
   unit |-> IF 3 \in F THEN Str(<<" ">>) ELSE InventoryBodyB.unit,
   category |-> IF 4 \in F THEN Undef ELSE InventoryBodyB.category,
   location |-> IF 5 \in F THEN Str(<<" ">>) ELSE InventoryBodyB.location,
   quantity |-> IF 6 \in F THEN Str(<<"a", "b", "c">>) ELSE InventoryBodyB.quantity,
   pricePerUnit |-> Undef,
   cost |-> IF 7 \in F THEN Str(<<"-", "2">>) ELSE InventoryBodyB.cost,
   purchaseDate |->
     IF 8 \in F THEN Str(<<"0", "7", "/", "0", "5", "/", "2", "0", "2", "5">>)
     ELSE IF 11 \in F
     THEN Str(<<"2", "0", "2", "5", "-", "0", "7", "-", "0", "5">>)
     ELSE InventoryBodyB.purchaseDate,
   expiry |-> Undef,
   expirationDate |->
     IF 9 \in F THEN Str(<<"s", "o", "o", "n">>)
     ELSE IF 11 \in F
     THEN Str(<<"2", "0", "2", "5", "-", "0", "7", "-", "0", "1">>)
     ELSE InventoryBodyB.expirationDate,
   createdDate |-> IF 10 \in F THEN Str(<<"x">>) ELSE Undef]

\* the most rules one drawn body of InventoryItem.add breaks at once
MaxBodyFaults == 2

\* the bodies the model draws for InventoryItem.add when it is the
\* validation that is exercised
FaultyBodies ==
  {FaultyBody(F) : F \in {G \in SUBSET (1..11) : Cardinality(G) <= MaxBodyFaults}}


(***************************************************************************)
(* Search & Scale of the server                                            *)
(***************************************************************************)
\* textIncludes(haystack, needle), both strings
textIncludes(haystack, needle) ==
  Includes(ToLowerCase(haystack), ToLowerCase(needle))

\* line.match(/^\s*([0-9]+(?:\.[0-9]+)?)\s*(.*)$/): [ok, token, rest].  The
\* token is the digits after the leading whitespace with a fraction when
\* one follows; the rest starts after the whitespace behind the token and
\* must reach the end of the string without a line terminator.
MatchLeadingNumber(line) ==
  LET p == Len(line) - Len(TrimStart(line)) + 1
      d1 == DigitsEnd(line, p)
      d2 == DigitsEnd(line, d1 + 2)
      hasFrac == d1 + 1 <= Len(line) /\ line[d1 + 1] = "." /\ d2 >= d1 + 2
      tokEnd == IF hasFrac THEN d2 ELSE d1
      rest == TrimStart(SubSeq(line, tokEnd + 1, Len(line)))
  IN IF d1 < p \/ \E i \in 1..Len(rest) : rest[i] \in LineTerminators
     THEN [ok |-> FALSE, ip |-> <<>>, fp |-> <<>>, rest |-> <<>>]
     ELSE [ok |-> TRUE,
           ip |-> SubSeq(line, p, d1),
           fp |-> IF hasFrac THEN SubSeq(line, d1 + 2, d2) ELSE <<>>,
           rest |-> rest]

\* `${scaled}${rest}`.trim(): no space between the number and the rest
JoinScaledNoSpace(scaled, rest) == Trim(NumToString(scaled) \o rest)

\* `${scaled} ${rest}`.trim()
JoinScaled(scaled, rest) == Trim(NumToString(scaled) \o <<" ">> \o rest)

\* scaleLine(line, scale), scale a finite number
scaleLine(line, scale) ==
  LET m == MatchLeadingNumber(line)
      qty == DecimalOf(m.ip, m.fp)
      scaled == RoundTo2(NumTimes(qty, scale))
  IN IF ~m.ok THEN line
     ELSE JoinScaled(scaled, m.rest)

\* the scale without the clamp
SanitizeScaleNoClamp(param) ==
  IF IsFinite(ParseFloat(param)) THEN ParseFloat(param) ELSE Num(1, 0)

\* the scale the search handler uses for the scale parameter of the request
SanitizeScale(param) ==
  LET rawScale == ParseFloat(param)
  IN IF IsFinite(rawScale)
     THEN MathMin(Num(5, 0), MathMax(Num(25, 2), rawScale))
     ELSE Num(1, 0)

\* r.servings || 1
ServingsOr1(r) ==
  IF r.servings.k = "nan" \/ r.servings = Num(0, 0) THEN Num(1, 0)
  ELSE r.servings

\* Math.max(1, Math.round((r.servings || 1) * scale))
ServingsScaled(r, scale) ==
  MathMax(Num(1, 0), MathRound(NumTimes(ServingsOr1(r), scale)))

\* whether the search keeps record r for a non-empty query
SearchMatches(r, query) ==
  \/ textIncludes(r.title, query)
  \/ textIncludes(r.chef, query)
  \/ textIncludes(r.mealType, query)
  \/ textIncludes(r.cuisineType, query)
  \/ \E i \in 1..Len(r.ingredients) : textIncludes(r.ingredients[i], query)
  \/ \E i \in 1..Len(r.instructions) : textIncludes(r.instructions[i], query)

\* the elements of rs whose flag in keep is TRUE, in their order
RECURSIVE SelectFlagged(_, _)
SelectFlagged(rs, keep) ==
  IF rs = <<>> THEN <<>>
  ELSE IF Head(keep) THEN <<Head(rs)>> \o SelectFlagged(Tail(rs), Tail(keep))
  ELSE SelectFlagged(Tail(rs), Tail(keep))

\* rs.filter(callback), given as the sequence keep of the callback's results
\* on the elements of rs
Filter(rs, keep) == SelectFlagged(rs, keep)

\* the least string of a non-empty set, in code-unit order
LeastOf(S) == CHOOSE a \in S : \A b \in S : ~StrGreater(a, b)

\* [...new Set(values)].filter(Boolean).sort(): the distinct non-empty
\* strings of S in ascending code-unit order
RECURSIVE SortedDistinct(_)
SortedDistinct(S) ==
  LET T == S \ {<<>>}
  IN IF T = {} THEN <<>>
     ELSE <<LeastOf(T)>> \o SortedDistinct(T \ {LeastOf(T)})

\* a selector of the filter: the query parameter, "all" when it is absent
SelectorOr(param) == IF param.t = "undef" THEN <<"a", "l", "l">> ELSE param.s

\* eqOrAll without the lower-casing
eqOrAllExact(val, sel) == sel = <<"a", "l", "l">> \/ val = sel

\* eqOrAll(val, sel) of the filter handler
eqOrAll(val, sel) ==
  sel = <<"a", "l", "l">> \/ ToLowerCase(val) = ToLowerCase(sel)

\* app.get("/filter-recipe-00000001"): what the handler hands to the view
FilterRecipe(rs, mealTypeParam, cuisineTypeParam, difficultyParam) ==
  LET mealType == SelectorOr(mealTypeParam)
      cuisineType == SelectorOr(cuisineTypeParam)
      difficulty == SelectorOr(difficultyParam)
      mealTypes == SortedDistinct({rs[i].mealType : i \in 1..Len(rs)})
      cuisineTypes == SortedDistinct({rs[i].cuisineType : i \in 1..Len(rs)})
      filtered ==
        Filter(rs, [i \in 1..Len(rs) |->
                     /\ eqOrAll(rs[i].mealType, mealType)
                     /\ eqOrAll(rs[i].cuisineType, cuisineType)
                     /\ eqOrAll(rs[i].difficulty, difficulty)])
  IN [recipes |-> filtered,
      meta |-> [total |-> Len(rs), shown |-> Len(filtered)],
      options |-> [mealTypes |-> mealTypes, cuisineTypes |-> cuisineTypes,
                   difficulties |-> <<<<"E", "a", "s", "y">>,
                                      <<"M", "e", "d", "i", "u", "m">>,
                                      <<"H", "a", "r", "d">>>>],
      selected |-> [mealType |-> mealType, cuisineType |-> cuisineType,
                    difficulty |-> difficulty]]

\* the selectors the model draws for a filter request
MealTypeParams ==
  {Undef, Str(<<"d", "i", "n", "n", "e", "r">>),
   Str(<<"L", "U", "N", "C", "H">>), Str(<<>>)}

CuisineTypeParams ==
  {Undef, Str(<<"t", "h", "a", "i">>), Str(<<"A", "l", "l">>)}

DifficultyParams ==
  {Str(<<"a", "l", "l">>), Str(<<"E", "A", "S", "Y">>),
   Str(<<"H", "a", "r", "d">>)}

\* a search triggered only by a non-empty parameter
HasSearchedTruthy(queryParam, scaleParam) ==
  Truthy(queryParam) \/ Truthy(scaleParam)

\* whether the request triggers a search
HasSearched(queryParam, scaleParam) ==
  queryParam.t # "undef" \/ scaleParam.t # "undef"

\* one entry of the results: the record's fields and the scaled values
ScaledResult(r, scale) ==
  [servingsScaled |-> ServingsScaled(r, scale),
   ingredientsScaled |->
     [i \in 1..Len(r.ingredients) |-> scaleLine(r.ingredients[i], scale)],
   scale |-> scale] @@ r

\* app.get("/search-recipe-00000001"): what the handler hands to the view
SearchRecipe(rs, queryParam, scaleParam) ==
  LET hasSearched == HasSearched(queryParam, scaleParam)
      query == Trim(StrOrEmpty(queryParam))
      scale == SanitizeScale(scaleParam)
      filtered ==
        Filter(rs, [i \in 1..Len(rs) |->
                     query = <<>> \/ SearchMatches(rs[i], query)])
      results ==
        IF hasSearched
        THEN [i \in 1..Len(filtered) |-> ScaledResult(filtered[i], scale)]
        ELSE <<>>
  IN [results |-> results, count |-> Len(results), query |-> query,
      scale |-> scale, hasSearched |-> hasSearched]

\* the query parameters the model draws
QueryParams ==
  {Undef, Str(<<>>), Str(<<" ">>), Str(<<"E", "G", "G">>)}

\* the scale parameters the model draws
ScaleParams ==
  {Undef, Str(<<"1", "0">>), Str(<<"0">>), Str(<<"a", "b", "c">>),
   Str(<<" ", "1", ".", "5", "x">>),
   Str(<<"I", "n", "f", "i", "n", "i", "t", "y">>)}

\* the ingredient lines the model draws for scaleLine
ScaleLines ==
  {
<<"2", "0", "0", "g", " ", "f", "l", "o", "u", "r">>,
   <<"B", "l", "a", "c", "k", " ", "p", "e", "p", "p", "e", "r">>,
   <<"4", " ", "l", "a", "r", "g", "e", " ", "e", "g", "g", "s">>,
   <<"1", ".", "5", " ", "c", "u", "p", "s", " ", "m", "i", "l", "k">>,
   <<" ", " ", "2", " ", "e", "g", "g", "s">>,
   <<"0", ".", "5", " ", "t", "s", "p", " ", "s", "a", "l", "t">>,
   <<"3">>,
   <<"1", "2", ".", "x">>,
   <<".", "5", " ", "c", "u", "p">>,
   <<"2", " ", "e", "g", "g", "s", "\n", "m", "o", "r", "e">>,
   <<"1", "0", "0", "g", " ", "P", "e", "c", "o", "r", "i", "n", "o", " ", "R", "o", "m", "a", "n", "o">>,
   <<>>,
   <<"7", " ", "\n", " ", "f", "i", "g", "s">>,
   <<" ", "s", "a", "l", "t">>}

\* the scales the model draws for scaleLine
Scales ==
  {Num(5, 1), Num(2, 0), Num(25, 2), Num(5, 0), Num(1, 0), Num(15, 1),
   Num(3, 0), Num(25, 1)}


(***************************************************************************)
(* The state machine.  recipes and inventory are the two arrays of         *)
(* data/sampleData.js.  out records the last operation: its name, its      *)
(* argument, the message of the error it raised (NoErr if none), what it   *)
(* returned and the collection it found.  rt holds the record and the      *)
(* collection of a successful Recipe.add while the next operation runs.    *)
(* assigned is the history of the ids Recipe.add has given out.            *)
(***************************************************************************)
\* the largest number a five-digit id suffix can hold
IdLimit == 99999

\* how far below IdLimit the ids of the nearly exhausted collections start
HighSlack == 2

\* ids are generated up to MaxId, and again near IdLimit
IdInBounds(n) == n <= MaxId \/ n > IdLimit - HighSlack

Op(op, arg, err, ret, before) ==
  [op |-> op, arg |-> arg, err |-> err, ret |-> ret, before |-> before]

Init ==
  /\ recipes = SeedRecipes
  /\ inventory = SeedInventory
  /\ out = Op("start", NoRecord, NoErr, NoRecord, <<>>)
  /\ rt = NoRecord
  /\ assigned = {}

\* a collection late in a long run: the first seed record deleted, the
\* second one followed by a record stored under the id R-99998
HighRecipes ==
  <<SeedRecipes[2],
    [SeedRecipes[1] EXCEPT
       !.recipeId = <<"R", "-", "9", "9", "9", "9", "8">>]>>

InitHigh ==
  /\ recipes \in {SeedRecipes, HighRecipes}
  /\ inventory = SeedInventory
  /\ out = Op("start", NoRecord, NoErr, NoRecord, <<>>)
  /\ rt = NoRecord
  /\ assigned = {}

\* an inventory late in a long run: the first seed item deleted, the
\* second one followed by an item stored under the id I-99998
HighInventory ==
  <<SeedInventory[2],
    [SeedInventory[1] EXCEPT
       !.inventoryId = <<"I", "-", "9", "9", "9", "9", "8">>]>>

InitExhaust ==
  /\ \/ recipes = HighRecipes /\ inventory = SeedInventory
     \/ recipes = SeedRecipes /\ inventory = HighInventory
  /\ out = Op("start", NoRecord, NoErr, NoRecord, <<>>)
  /\ rt = NoRecord
  /\ assigned = {}

\* a call of Recipe.add(recipes, p)
AddRecipe(p) ==
  \E r \in {RecipeAdd(recipes, p, Today)} :
    /\ recipes' = r.recipes
    /\ out' = Op("Recipe.add", p, r.err, r.ret, recipes)
    /\ rt' = NoRecord
    /\ assigned' =
         IF r.err = NoErr THEN assigned \cup {r.ret.recipeId} ELSE assigned
    /\ UNCHANGED inventory

\* a call of Recipe.deleteById(recipes, id)
DeleteRecipe(id) ==
  \E r \in {RecipeDeleteById(recipes, id)} :
    /\ recipes' = r.recipes
    /\ out' = Op("Recipe.deleteById", id, NoErr, r.ret, recipes)
    /\ rt' = IF out.op = "Recipe.add" /\ out.err = NoErr
             THEN [rec |-> out.ret, pre |-> out.before]
             ELSE NoRecord
    /\ UNCHANGED <<inventory, assigned>>

\* a call of InventoryItem.add(inventory, p)
AddInventory(p) ==
  \E r \in {InventoryAdd(inventory, p, Today)} :
    /\ inventory' = r.items
    /\ out' = Op("InventoryItem.add", p, r.err, r.ret, inventory)
    /\ rt' = NoRecord
    /\ UNCHANGED <<recipes, assigned>>

\* a call of InventoryItem.deleteById(inventory, id)
DeleteInventory(id) ==
  \E r \in {InventoryDeleteById(inventory, id)} :
    /\ inventory' = r.items
    /\ out' = Op("InventoryItem.deleteById", id, NoErr, r.ret, inventory)
    /\ rt' = NoRecord
    /\ UNCHANGED <<recipes, assigned>>

\* a POST /inventory-00000001 request
PostInventoryRequest(body) ==
  \E r \in {PostInventory(inventory, body, Today)} :
    /\ inventory' = r.items
    /\ out' = Op("POST /inventory", body, r.err, r.status, inventory)
    /\ rt' = NoRecord
    /\ UNCHANGED <<recipes, assigned>>

\* a GET /search-recipe-00000001 request
SearchRequest(queryParam, scaleParam) ==
  /\ out' = Op("GET /search-recipe",
               [query |-> queryParam, scale |-> scaleParam], NoErr,
               SearchRecipe(recipes, queryParam, scaleParam), recipes)
  /\ rt' = NoRecord
  /\ UNCHANGED <<recipes, inventory, assigned>>

\* a call of scaleLine(line, scale)
ScaleLineCall(line, scale) ==
  /\ out' = Op("scaleLine", [line |-> line, scale |-> scale], NoErr,
               scaleLine(line, scale), <<>>)
  /\ rt' = NoRecord
  /\ UNCHANGED <<recipes, inventory, assigned>>

\* a GET /filter-recipe-00000001 request
FilterRequest(mealTypeParam, cuisineTypeParam, difficultyParam) ==
  /\ out' = Op("GET /filter-recipe",
               [mealType |-> mealTypeParam, cuisineType |-> cuisineTypeParam,
                difficulty |-> difficultyParam], NoErr,
               FilterRecipe(recipes, mealTypeParam, cuisineTypeParam,
                            difficultyParam), recipes)
  /\ rt' = NoRecord
  /\ UNCHANGED <<recipes, inventory, assigned>>

\* a call of new InventoryItem(raw)
ConstructInventoryItem(raw) ==
  \E r \in {InventoryItemConstructor(raw)} :
    /\ out' = Op("new InventoryItem", raw, r.err, r.rec, <<>>)
    /\ rt' = NoRecord
    /\ UNCHANGED <<recipes, inventory, assigned>>

\* a POST /recipe-1 request
PostRecipeRequest(body) ==
  \E r \in {PostRecipe(recipes, body, Today)} :
    /\ recipes' = r.recipes
    /\ out' = Op("POST /recipe", body, r.err,
                 [status |-> r.status, layer |-> r.layer], recipes)
    /\ rt' = NoRecord
    /\ assigned' =
         IF r.status = 303
         THEN assigned \cup {r.recipes[Len(r.recipes)].recipeId}
         ELSE assigned
    /\ UNCHANGED inventory

\* the ids the model draws for a delete: the ids in the collection, and
\* an absent, a wrongly cased and an unused one
RecipeIdArgs ==
  {Str(recipes[i].recipeId) : i \in 1..Len(recipes)}
    \cup {Undef, Str(<<"r", "-", "0", "0", "0", "0", "1">>),
          Str(formatId(MaxId + 1))}

InventoryIdArgs ==
  {Str(inventory[i].inventoryId) : i \in 1..Len(inventory)}
    \cup {Undef, Str(InventoryFormatId(MaxId + 1))}

RecipeStep ==
  \/ \E p \in RecipeBodies :
       /\ Len(recipes) < MaxRecipes
       /\ IdInBounds(RecipeNextNum(recipes))
       /\ AddRecipe(p)
  \/ \E id \in RecipeIdArgs : DeleteRecipe(id)

InventoryStep ==
  \/ \E p \in InventoryBodies :
       /\ Len(inventory) < MaxItems
       /\ IdInBounds(InventoryNextNum(inventory))
       /\ AddInventory(p)
  \/ \E p \in InventoryBodies :
       /\ Len(inventory) < MaxItems
       /\ IdInBounds(InventoryNextNum(inventory))
       /\ PostInventoryRequest(p)
  \/ \E id \in InventoryIdArgs : DeleteInventory(id)

\* The two repositories share no state, and no operation of one reads the
\* other: a run works on one of them, the other staying as seeded.
Next ==
  \/ inventory = SeedInventory /\ RecipeStep
  \/ recipes = SeedRecipes /\ InventoryStep

Spec == Init /\ [][Next]_vars

\* the repositories from the seed or from a nearly exhausted id space
SpecHigh == InitHigh /\ [][Next]_vars

\* either repository from a nearly exhausted id space
SpecExhaust == InitExhaust /\ [][Next]_vars

NextRoute ==
  \/ \E body \in RouteBodies :
       /\ Len(recipes) < MaxRecipes
       /\ IdInBounds(RecipeNextNum(recipes))
       /\ PostRecipeRequest(body)
  \/ \E id \in RecipeIdArgs : DeleteRecipe(id)

\* the recipe route and deleteById, from the seed or from a nearly
\* exhausted id space
SpecRoute == InitHigh /\ [][NextRoute]_vars

NextQuery ==
  \/ RecipeStep
  \/ \E q \in QueryParams, s \in ScaleParams : SearchRequest(q, s)

\* the recipe repository and the search handler
SpecQuery == Init /\ [][NextQuery]_vars

NextScale == \E line \in ScaleLines, s \in Scales : ScaleLineCall(line, s)

\* scaleLine on the drawn lines and scales
SpecScale == Init /\ [][NextScale]_vars

NextFilter ==
  \/ RecipeStep
  \/ \E m \in MealTypeParams, c \in CuisineTypeParams, d \in DifficultyParams :
       FilterRequest(m, c, d)

\* the recipe repository and the filter handler
SpecFilter == Init /\ [][NextFilter]_vars

\* The constructor reads nothing of the collection: the model calls it
\* while the collection is as seeded.
NextValidate ==
  \/ \E raw \in InventoryCandidates :
       /\ inventory = SeedInventory
       /\ ConstructInventoryItem(raw)
  \/ \E p \in FaultyBodies :
       /\ Len(inventory) < MaxItems
       /\ IdInBounds(InventoryNextNum(inventory))
       /\ AddInventory(p)

\* the InventoryItem constructor and the inventory repository on candidates
\* and bodies that break several rules at once
SpecValidate == Init /\ [][NextValidate]_vars

(***************************************************************************)
(* The claims.                                                             *)
(***************************************************************************)
\* the number written by the five digits of a well-formed id
SuffixNumber(id) == DecVal(SubSeq(id, 3, 7))

\* the largest numeric suffix among the ids of rs, 0 for an empty rs
MaxSuffixOf(rs) ==
  LET ns == {0} \cup {SuffixNumber(rs[i].recipeId) : i \in 1..Len(rs)}
  IN CHOOSE m \in ns : \A n \in ns : n <= m

\* s is R- followed by the number n written with exactly 5 digits
IsRecipeIdOf(s, n) ==
  /\ Len(s) = 7
  /\ SubSeq(s, 1, 2) = <<"R", "-">>
  /\ AllDigits(SubSeq(s, 3, 7))
  /\ SuffixNumber(s) = n

\* a body whose fields satisfy the constraints of a Recipe
ValidRecipeBody(p) ==
  /\ Trim(StrOrEmpty(p.title)) # <<>>
  /\ Trim(StrOrEmpty(p.chef)) # <<>>
  /\ IsFinite(ToNumber(p.prepTime)) /\ ToNumber(p.prepTime).n > 0
  /\ IsFinite(ToNumber(p.servings)) /\ ToNumber(p.servings).n > 0
  /\ Trim(StrOrEmpty(p.difficulty)) \in Difficulties

\* C1: after any sequence of Recipe.add and Recipe.deleteById calls from the
\* seed, no two records of the recipe collection have the same recipeId.
C1_UniqueRecipeIds ==
  \A i, j \in 1..Len(recipes) :
    recipes[i].recipeId = recipes[j].recipeId => i = j

\* C1: an add has succeeded on a collection that deletions had shortened
C1_Witness ==
  /\ out.op = "Recipe.add"
  /\ out.err = NoErr
  /\ Len(out.before) < Len(SeedRecipes)
  /\ Len(recipes) > 1

\* C2: once an add has assigned a recipeId, no later add assigns that id
\* again, whichever record was deleted in between.
C2_NeverReused ==
  [][(out'.op = "Recipe.add" /\ out'.err = NoErr /\ recipes' # recipes)
       => out'.ret.recipeId \notin assigned]_vars

\* C3 as stated: for every valid body and every collection, Recipe.add
\* stores and returns a record whose recipeId is R- and the largest suffix
\* plus 1, on 5 digits.
C3_AddAssignsMaxPlusOne ==
  (out.op = "Recipe.add" /\ ValidRecipeBody(out.arg))
    => /\ out.err = NoErr
       /\ recipes = Append(out.before, out.ret)
       /\ IsRecipeIdOf(out.ret.recipeId, MaxSuffixOf(out.before) + 1)

\* C3, amended: the same for every collection whose largest suffix is below
\* 99999; an empty collection gives R-00001 and the seed gives R-00003.
C3_AddAssignsMaxPlusOneBelowLimit ==
  (/\ out.op = "Recipe.add"
   /\ ValidRecipeBody(out.arg)
   /\ MaxSuffixOf(out.before) < IdLimit)
    => /\ out.err = NoErr
       /\ recipes = Append(out.before, out.ret)
       /\ IsRecipeIdOf(out.ret.recipeId, MaxSuffixOf(out.before) + 1)
       /\ out.before = <<>>
            => out.ret.recipeId = <<"R", "-", "0", "0", "0", "0", "1">>
       /\ out.before = SeedRecipes
            => out.ret.recipeId = <<"R", "-", "0", "0", "0", "0", "3">>

\* C3: a valid body has been added to the emptied collection
C3_Witness ==
  /\ out.op = "Recipe.add"
  /\ ValidRecipeBody(out.arg)
  /\ out.before = <<>>
  /\ Len(recipes) = 1

\* C4: an add that raises an error leaves the collection with the same
\* records in the same order, in both repositories; a body with a missing
\* or blank title fails with the title message.
C4_FailedAddChangesNothing ==
  /\ (out.op = "Recipe.add" /\ out.err # NoErr) => recipes = out.before
  /\ (out.op = "InventoryItem.add" /\ out.err # NoErr)
       => inventory = out.before
  /\ (out.op = "Recipe.add" /\ Blank(out.arg.title))
       => out.err = "title is required"

\* C4: an add of a body with a blank title has failed
C4_Witness ==
  /\ out.op = "Recipe.add"
  /\ out.arg.title.t = "str"
  /\ out.err = "title is required"
  /\ Len(out.before) > 0

\* C5: Recipe.deleteById with the recipeId of the record Recipe.add has just
\* returned returns that record, and the collection is back to what it was
\* before the add.
C5_AddDeleteRoundTrip ==
  (/\ out.op = "Recipe.deleteById"
   /\ rt # NoRecord
   /\ out.arg = Str(rt.rec.recipeId))
    => /\ out.ret = rt.rec
       /\ recipes = rt.pre

\* C5: the record just added has been deleted again
C5_Witness ==
  /\ out.op = "Recipe.deleteById"
  /\ rt # NoRecord
  /\ out.arg = Str(rt.rec.recipeId)
  /\ Len(rt.pre) > 0

\* the string a delete looks for: String(id || "")
SoughtId(arg) == IF arg.t = "undef" THEN <<>> ELSE arg.s

\* the positions of rs that hold the id
Holders(rs, id) == {i \in 1..Len(rs) : rs[i].recipeId = id}

\* C6: Recipe.deleteById(id) with an id no record holds returns null and
\* leaves the collection unchanged; with an id a record holds it removes
\* exactly the first record holding it, returns it, and leaves every other
\* record in place in its order.
C6_DeleteFrame ==
  out.op = "Recipe.deleteById"
    => LET h == Holders(out.before, SoughtId(out.arg))
           k == CHOOSE i \in h : \A j \in h : i <= j
       IN IF h = {}
          THEN out.ret = NoRecord /\ recipes = out.before
          ELSE /\ out.ret = out.before[k]
               /\ Len(recipes) = Len(out.before) - 1
               /\ \A i \in 1..Len(recipes) :
                    recipes[i] = out.before[IF i < k THEN i ELSE i + 1]

\* C6: a record that was not the last one has been removed
C6_Witness ==
  /\ out.op = "Recipe.deleteById"
  /\ out.ret # NoRecord
  /\ Len(recipes) > 0
  /\ out.ret = out.before[1]

IsNumericToken(s) ==
  /\ s # <<>>
  /\ \A i \in 1..Len(s) : IsDigit(s[i]) \/ s[i] = "."
  /\ Cardinality({i \in 1..Len(s) : s[i] = "."}) <= 1
  /\ IsDigit(s[1]) /\ IsDigit(s[Len(s)])

\* the length of the longest numeric token s starts with, 0 if none
LeadingTokenLen(s) ==
  LET ks == {0} \cup {k \in 1..Len(s) : IsNumericToken(SubSeq(s, 1, k))}
  IN CHOOSE k \in ks : \A j \in ks : j <= k

\* the number a numeric token writes
TokenValue(tok) ==
  LET dots == {i \in 1..Len(tok) : tok[i] = "."}
      d == IF dots = {} THEN Len(tok) + 1 ELSE CHOOSE i \in dots : TRUE
  IN DecimalOf(SubSeq(tok, 1, d - 1), SubSeq(tok, d + 1, Len(tok)))

HasLineBreak(s) == \E i \in 1..Len(s) : s[i] \in LineTerminators

Flour200g == <<"2", "0", "0", "g", " ", "f", "l", "o", "u", "r">>

\* C8 as stated: a line that starts with a numeric token becomes the token
\* times the scale followed by the remainder of the line, so that
\* scaleLine("200g flour", 0.5) is "100g flour"; a line with no leading
\* numeric token is returned unchanged.
C8_ScaleLineKeepsRemainder ==
  out.op = "scaleLine"
    => LET line == out.arg.line
           k == LeadingTokenLen(TrimStart(line))
       IN /\ (line = Flour200g /\ out.arg.scale = Num(5, 1))
               => out.ret = <<"1", "0", "0", "g", " ", "f", "l", "o", "u", "r">>
          /\ k = 0 => out.ret = line

\* C8, amended: a line without line breaks that starts, after optional
\* whitespace, with a numeric token becomes the token times the scale
\* (rounded to 2 decimals), one space, and the remainder of the line without
\* the whitespace around it, so that scaleLine("200g flour", 0.5) is
\* "100 g flour"; a line with no leading numeric token is returned unchanged
\* for every scale.
C8_ScaleLineInsertsSpace ==
  out.op = "scaleLine"
    => LET line == out.arg.line
           body == TrimStart(line)
           k == LeadingTokenLen(body)
           scaled ==
             RoundTo2(NumTimes(TokenValue(SubSeq(body, 1, k)), out.arg.scale))
       IN /\ (line = Flour200g /\ out.arg.scale = Num(5, 1))
               => out.ret =
                    <<"1", "0", "0", " ", "g", " ", "f", "l", "o", "u", "r">>
          /\ (k > 0 /\ ~HasLineBreak(line))
               => out.ret =
                    TrimEnd(NumToString(scaled) \o <<" ">>
                              \o Trim(SubSeq(body, k + 1, Len(body))))
          /\ k = 0 => out.ret = line

\* C8: scaleLine("200g flour", 0.5) has been computed
C8_Witness ==
  /\ out.op = "scaleLine"
  /\ out.arg.line = Flour200g
  /\ out.arg.scale = Num(5, 1)
  /\ out.ret # out.arg.line

\* x is the integer nearest to y, halves going up: x - 1/2 <= y < x + 1/2
IsRounded(x, y) ==
  /\ x.k = "num" /\ x.e = 0
  /\ 2 * x.n * Pow10(y.e) - Pow10(y.e) <= 2 * y.n
  /\ 2 * y.n < 2 * x.n * Pow10(y.e) + Pow10(y.e)

\* C9: the scale the search uses lies in [0.25, 5]: a value above 5 (10)
\* becomes 5, a value below 0.25 (0) becomes 0.25, a missing or non-numeric
\* one becomes 1; every result's scaled servings is
\* max(1, round(servings * scale)), hence at least 1.
C9_ScaleClamped ==
  out.op = "GET /search-recipe"
    => LET raw == ParseFloat(out.arg.scale)
           sc == out.ret.scale
           lo == Num(25, 2)
           hi == Num(5, 0)
       IN /\ IsFinite(sc) /\ NumLeq(lo, sc) /\ NumLeq(sc, hi)
          /\ (IsFinite(raw) /\ NumLess(hi, raw)) => sc = hi
          /\ (IsFinite(raw) /\ NumLess(raw, lo)) => sc = lo
          /\ (IsFinite(raw) /\ NumLeq(lo, raw) /\ NumLeq(raw, hi)) => sc = raw
          /\ ~IsFinite(raw) => sc = Num(1, 0)
          /\ out.arg.scale = Str(<<"1", "0">>) => sc = hi
          /\ out.arg.scale = Str(<<"0">>) => sc = lo
          /\ out.arg.scale \in {Undef, Str(<<"a", "b", "c">>)} => sc = Num(1, 0)
          /\ \A i \in 1..Len(out.ret.results) :
               LET r == out.ret.results[i]
                   x == NumTimes(r.servings, sc)
               IN /\ NumLeq(Num(1, 0), r.servingsScaled)
                  /\ \/ IsRounded(r.servingsScaled, x)
                     \/ /\ r.servingsScaled = Num(1, 0)
                        /\ 2 * x.n < Pow10(x.e)

\* C9: a search with scale 0 has run with 0.25 and returned a result whose
\* scaled servings are the floor of 1, not the rounded product
C9_Witness ==
  /\ out.op = "GET /search-recipe"
  /\ out.arg.scale = Str(<<"0">>)
  /\ out.ret.scale = Num(25, 2)
  /\ \E i \in 1..Len(out.ret.results) :
       /\ out.ret.results[i].servingsScaled = Num(1, 0)
       /\ ~IsRounded(Num(1, 0),
                     NumTimes(out.ret.results[i].servings, out.ret.scale))

\* the fields of a stored recipe
RecipeFields ==
  {"recipeId", "title", "chef", "ingredients", "instructions", "mealType",
   "cuisineType", "prepTime", "difficulty", "servings", "createdDate"}

\* C10: hasSearched is false exactly when neither query nor scale is
\* supplied, and then the result list is empty whatever the collection
\* holds; when query is supplied as the empty string hasSearched is true and
\* the result list holds every record of the collection in its order.
C10_SearchedOrNot ==
  out.op = "GET /search-recipe"
    => LET q == out.arg.query
           s == out.arg.scale
           res == out.ret.results
       IN /\ out.ret.hasSearched = FALSE <=> (q.t = "undef" /\ s.t = "undef")
          /\ out.ret.hasSearched = FALSE => res = <<>>
          /\ q = Str(<<>>)
               => /\ out.ret.hasSearched = TRUE
                  /\ Len(res) = Len(out.before)
                  /\ \A i \in 1..Len(res) :
                       [f \in RecipeFields |-> res[i][f]] = out.before[i]

\* C10: an empty query has returned the whole of a collection that an add
\* had grown
C10_Witness ==
  /\ out.op = "GET /search-recipe"
  /\ out.arg.query = Str(<<>>)
  /\ out.arg.scale.t = "undef"
  /\ Len(out.ret.results) = 3

\* a selector value that is the wildcard: "all", also the value of an
\* absent parameter
IsWildcard(param) == param.t = "undef" \/ param.s = <<"a", "l", "l">>

\* two characters that are the same letter in either case
SameLetter(a, b) ==
  \/ a = b
  \/ \E i \in 1..Len(Upper) :
       {a, b} = {Upper[i], Lower[i]}

\* two strings equal when letter case is ignored
EqualIgnoringCase(a, b) ==
  /\ Len(a) = Len(b)
  /\ \A i \in 1..Len(a) : SameLetter(a[i], b[i])

\* a selector lets a field through
SelectorAdmits(param, field) ==
  IsWildcard(param) \/ EqualIgnoringCase(param.s, field)

\* the positions of rs that the three selectors of arg admit
AdmittedPositions(rs, arg) ==
  {i \in 1..Len(rs) :
     /\ SelectorAdmits(arg.mealType, rs[i].mealType)
     /\ SelectorAdmits(arg.cuisineType, rs[i].cuisineType)
     /\ SelectorAdmits(arg.difficulty, rs[i].difficulty)}

\* the j-th smallest member of a set of positions
NthOf(K, j) == CHOOSE i \in K : Cardinality({k \in K : k <= i}) = j

\* C11: the attribute filter returns exactly the records for which each of
\* the three selectors is the wildcard "all" or equals the record's field
\* ignoring letter case, in their original relative order; with three
\* wildcards it returns the whole collection in its order.
C11_FilterSubsequence ==
  out.op = "GET /filter-recipe"
    => LET K == AdmittedPositions(out.before, out.arg)
           res == out.ret.recipes
       IN /\ Len(res) = Cardinality(K)
          /\ \A j \in 1..Len(res) : res[j] = out.before[NthOf(K, j)]
          /\ (\A f \in {"mealType", "cuisineType", "difficulty"} :
                IsWildcard(out.arg[f]))
               => res = out.before

\* C11: a selector written in another letter case than the stored field
\* has selected a record that is not the first of a collection of three
C11_Witness ==
  /\ out.op = "GET /filter-recipe"
  /\ out.arg.mealType = Str(<<"L", "U", "N", "C", "H">>)
  /\ out.arg.difficulty = Str(<<"E", "A", "S", "Y">>)
  /\ Len(out.before) = 3
  /\ Len(out.ret.recipes) = 1
  /\ out.ret.recipes[1] = out.before[3]

\* the constraints of an InventoryItem, numbered in the order in which the
\* entity is said to check them: 1 id, 2 userId, 3 ingredientName, 4 unit,
\* 5 category, 6 location, 7 quantity, 8 cost, 9 purchaseDate format,
\* 10 expirationDate format, 11 createdDate format, 12 expiration not
\* before purchase
IsBlankText(s) == \A i \in 1..Len(s) : s[i] \in WS

IsDateText(s) ==
  /\ Len(s) = 10
  /\ s[5] = "-"
  /\ s[8] = "-"
  /\ \A i \in {1, 2, 3, 4, 6, 7, 9, 10} : IsDigit(s[i])

\* the digits of a well-formed date, most significant first
DateDigits(s) == [i \in 1..8 |-> DigitVal(s[<<1, 2, 3, 4, 6, 7, 9, 10>>[i]])]

\* a well-formed date lies before another
DateBefore(a, b) ==
  \E i \in 1..8 :
    /\ DateDigits(a)[i] < DateDigits(b)[i]
    /\ \A j \in 1..(i - 1) : DateDigits(a)[j] = DateDigits(b)[j]

\* the constraints the candidate c violates
ViolatedBy(c) ==
  {k \in 1..12 :
     \/ k = 1 /\ ~(/\ Len(c.inventoryId) = 7
                   /\ SubSeq(c.inventoryId, 1, 2) = <<"I", "-">>
                   /\ \A i \in 3..7 : IsDigit(c.inventoryId[i]))
     \/ k = 2 /\ IsBlankText(c.userId)
     \/ k = 3 /\ IsBlankText(c.ingredientName)
     \/ k = 4 /\ IsBlankText(c.unit)
     \/ k = 5 /\ IsBlankText(c.category)
     \/ k = 6 /\ IsBlankText(c.location)
     \/ k = 7 /\ (c.quantity.k # "num" \/ c.quantity.n < 0)
     \/ k = 8 /\ (c.cost.k # "num" \/ c.cost.n < 0)
     \/ k = 9 /\ c.purchaseDate # <<>> /\ ~IsDateText(c.purchaseDate)
     \/ k = 10 /\ c.expirationDate # <<>> /\ ~IsDateText(c.expirationDate)
     \/ k = 11 /\ ~IsDateText(c.createdDate)
     \/ k = 12 /\ IsDateText(c.purchaseDate) /\ IsDateText(c.expirationDate)
               /\ DateBefore(c.expirationDate, c.purchaseDate)}

\* the constraint a message names, 0 when there is no error
ConstraintOf(msg) ==
  CASE msg = NoErr -> 0
    [] msg = "inventoryId must be in 'I-00001' format" -> 1
    [] msg = "userId is required" -> 2
    [] msg \in {"ingredientName is required",
                "ingredientName (or name) is required"} -> 3
    [] msg = "unit is required" -> 4
    [] msg = "category is required" -> 5
    [] msg = "location is required" -> 6
    [] msg = "quantity must be a non-negative number" -> 7
    [] msg = "cost must be a number >= 0" -> 8
    [] msg = "purchaseDate must be in 'YYYY-MM-DD' format" -> 9
    [] msg = "expirationDate must be in 'YYYY-MM-DD' format" -> 10
    [] msg = "createdDate must be in 'YYYY-MM-DD' format" -> 11
    [] msg = "expirationDate must not be earlier than purchaseDate" -> 12
    [] OTHER -> 13

\* the order of the entity's checks, and the order through add
EntityOrder == <<1, 2, 3, 4, 5, 6, 7, 8, 9, 10, 11, 12>>

AddOrder == <<3, 2, 1, 4, 5, 6, 7, 8, 9, 10, 11, 12>>

\* the first constraint of the order that is in V, 0 when V is empty
FirstIn(order, V) ==
  IF V = {} THEN 0
  ELSE order[CHOOSE i \in 1..12 :
               order[i] \in V /\ \A j \in 1..(i - 1) : order[j] \notin V]

\* the candidate InventoryItem.add makes of a body when the next id is id:
\* aliases resolved, texts trimmed, numbers converted, defaults filled in
CandidateOfBody(p, id) ==
  LET pick(a, b) == IF a.t = "str" /\ a.s # <<>> THEN a.s ELSE b
      given(a, b) == IF a.t = "str" THEN a ELSE b
  IN [inventoryId |-> id,
      userId |-> pick(p.userId, <<>>),
      ingredientName |-> pick(p.ingredientName, pick(p.name, <<>>)),
      quantity |-> ToNumber(p.quantity),
      unit |-> pick(p.unit, <<>>),
      category |-> pick(p.category, <<>>),
      purchaseDate |-> pick(p.purchaseDate, Today),
      expirationDate |-> pick(p.expirationDate, pick(p.expiry, <<>>)),
      location |-> pick(p.location, <<"U", "n", "k", "n", "o", "w", "n">>),
      cost |-> ToNumber(given(p.cost, given(p.pricePerUnit, Str(<<"0">>)))),
      createdDate |-> pick(p.createdDate, Today)]

\* the id InventoryItem.add generates for the collection items
NextInventoryId(items) ==
  LET ns == {0} \cup {DecVal(SubSeq(items[i].inventoryId, 3, 7)) :
                        i \in 1..Len(items)}
      m == CHOOSE n \in ns : \A k \in ns : k <= n
      d == NatToString(m + 1)
  IN <<"I", "-">> \o [i \in 1..(5 - Len(d)) |-> "0"] \o d

\* C12 as stated: a candidate that violates several constraints is rejected
\* with the one message of the first violated constraint in the order id,
\* userId, ingredientName, unit, category, location, quantity, cost,
\* purchaseDate format, expirationDate format, createdDate format,
\* expiration not before purchase, by the constructor and through add
\* alike.
C12_FirstViolationBothWays ==
  /\ out.op = "new InventoryItem"
       => ConstraintOf(out.err) = FirstIn(EntityOrder, ViolatedBy(out.arg))
  /\ out.op = "InventoryItem.add"
       => ConstraintOf(out.err) =
            FirstIn(EntityOrder,
                    ViolatedBy(CandidateOfBody(out.arg,
                                               NextInventoryId(out.before))))

\* C12: the constructor rejects a candidate with the message of the first
\* violated constraint in the order id, userId, ingredientName, unit,
\* category, location, quantity, cost, purchaseDate format, expirationDate
\* format, createdDate format, expiration not before purchase; through add
\* the order begins with ingredientName, userId, id and goes on as in the
\* constructor.
C12_FirstViolationPerEntry ==
  /\ out.op = "new InventoryItem"
       => ConstraintOf(out.err) = FirstIn(EntityOrder, ViolatedBy(out.arg))
  /\ out.op = "InventoryItem.add"
       => ConstraintOf(out.err) =
            FirstIn(AddOrder,
                    ViolatedBy(CandidateOfBody(out.arg,
                                               NextInventoryId(out.before))))

\* C12: add has rejected a body that lacks userId and ingredientName
C12_Witness ==
  /\ out.op = "InventoryItem.add"
  /\ out.arg.userId = Undef
  /\ out.arg.ingredientName = Str(<<" ">>)
  /\ out.err = "ingredientName (or name) is required"

\* C12: the constructor has rejected a candidate that violates two
\* constraints
C12_WitnessConstructor ==
  /\ out.op = "new InventoryItem"
  /\ ViolatedBy(out.arg) = {3, 12}
  /\ out.err = "ingredientName is required"

\* the candidate the last call has validated: the argument of the
\* constructor, or what add makes of its body
ValidatedCandidate ==
  IF out.op = "new InventoryItem" THEN out.arg
  ELSE CandidateOfBody(out.arg, NextInventoryId(out.before))

\* both dates of c are present and well formed, and the expiration lies
\* before the purchase
ExpiresBeforePurchase(c) ==
  /\ IsDateText(c.purchaseDate)
  /\ IsDateText(c.expirationDate)
  /\ DateBefore(c.expirationDate, c.purchaseDate)

\* C13: a record whose purchaseDate and expirationDate are both present with
\* the expiration earlier than the purchase is rejected, by this rule when
\* it violates no other and with nothing stored; a record whose dates are
\* equal, or whose expiration is later, or that lacks one of them, is not
\* rejected on this rule.
C13_ExpirationNotBeforePurchase ==
  out.op \in {"new InventoryItem", "InventoryItem.add"}
    => LET c == ValidatedCandidate
           msg == "expirationDate must not be earlier than purchaseDate"
       IN /\ ExpiresBeforePurchase(c)
               => /\ out.err # NoErr
                  /\ ViolatedBy(c) = {12} => out.err = msg
                  /\ out.op = "InventoryItem.add" => inventory = out.before
          /\ ~ExpiresBeforePurchase(c) => out.err # msg
          /\ (c.purchaseDate = c.expirationDate /\ ViolatedBy(c) = {})
               => out.err = NoErr

\* C13: the constructor has rejected an expiration before the purchase and
\* nothing else was wrong with the candidate
C13_Witness ==
  /\ out.op = "new InventoryItem"
  /\ ExpiresBeforePurchase(out.arg)
  /\ ViolatedBy(out.arg) = {12}
  /\ out.err = "expirationDate must not be earlier than purchaseDate"

\* C13: equal dates have been accepted
C13_WitnessEqual ==
  /\ out.op = "new InventoryItem"
  /\ out.arg.purchaseDate = out.arg.expirationDate
  /\ out.arg.purchaseDate # <<>>
  /\ out.err = NoErr

\* a number that is finite and greater than 0
IsPositive(x) == x.k = "num" /\ x.n > 0

\* the entity constraints of a stored recipe
SatisfiesRecipeConstraints(r) ==
  /\ Len(r.recipeId) = 7
  /\ SubSeq(r.recipeId, 1, 2) = <<"R", "-">>
  /\ \A i \in 3..7 : IsDigit(r.recipeId[i])
  /\ ~IsBlankText(r.title)
  /\ ~IsBlankText(r.chef)
  /\ IsPositive(r.prepTime)
  /\ IsPositive(r.servings)
  /\ r.difficulty \in {<<"E", "a", "s", "y">>, <<"M", "e", "d", "i", "u", "m">>,
                       <<"H", "a", "r", "d">>}
  /\ \A i \in 1..Len(r.ingredients) : r.ingredients[i] # <<>>
  /\ \A i \in 1..Len(r.instructions) : r.instructions[i] # <<>>

\* C14: from the seed data, after any sequence of Recipe.add and
\* Recipe.deleteById calls every record of the recipe collection has an id
\* of R- and 5 digits, a title and a chef that are not blank, a prepTime and
\* servings that are finite and greater than 0, a difficulty among Easy,
\* Medium and Hard, and ingredients and instructions without an empty entry.
C14_StoredRecipesValid ==
  \A i \in 1..Len(recipes) : SatisfiesRecipeConstraints(recipes[i])

\* C14: the collection holds a record added from a body whose instructions
\* split into empty pieces only, and whose difficulty came padded
C14_Witness ==
  /\ out.op = "Recipe.add"
  /\ out.err = NoErr
  /\ out.arg.instructions = Str(<<",", " ", ",">>)
  /\ Len(recipes) = 3
  /\ recipes[3].instructions = <<>>
  /\ recipes[3].difficulty = <<"H", "a", "r", "d">>

\* some id of the collection ids (a sequence of ids) ends in 99999
HoldsLastId(ids) ==
  \E i \in 1..Len(ids) :
    SubSeq(ids[i], 3, Len(ids[i])) = <<"9", "9", "9", "9", "9">>

\* the ids of the two collections
RecipeIdsOf(rs) == [i \in 1..Len(rs) |-> rs[i].recipeId]

InventoryIdsOf(items) == [i \in 1..Len(items) |-> items[i].inventoryId]

\* a sequence of ids: each a prefix of two characters and 5 digits, no two
\* alike
FiveDigitsNoDuplicate(ids) ==
  /\ \A i \in 1..Len(ids) :
       Len(ids[i]) = 7 /\ \A k \in 3..7 : IsDigit(ids[i][k])
  /\ \A i, j \in 1..Len(ids) : ids[i] = ids[j] => i = j

\* C15: while a collection holds a record whose id ends in 99999, add fails
\* for every payload and leaves the collection as it was, a fully valid
\* payload failing on the format of the generated id; no collection ever
\* holds an id of more than 5 digits or the same id twice.  For recipes and
\* for the inventory alike.
C15_IdSpaceExhausted ==
  /\ (out.op = "Recipe.add" /\ HoldsLastId(RecipeIdsOf(out.before)))
       => /\ out.err # NoErr
          /\ recipes = out.before
          /\ ValidRecipeBody(out.arg)
               => out.err = "recipeId must be in 'R-00001' format"
  /\ (out.op = "InventoryItem.add" /\ HoldsLastId(InventoryIdsOf(out.before)))
       => /\ out.err # NoErr
          /\ inventory = out.before
          /\ ViolatedBy(CandidateOfBody(out.arg, <<"I", "-", "0", "0", "0", "0", "0">>)) = {}
               => out.err = "inventoryId must be in 'I-00001' format"
  /\ FiveDigitsNoDuplicate(RecipeIdsOf(recipes))
  /\ FiveDigitsNoDuplicate(InventoryIdsOf(inventory))

\* C15: a valid body has been refused by a recipe collection that holds
\* R-99999
C15_Witness ==
  /\ out.op = "Recipe.add"
  /\ ValidRecipeBody(out.arg)
  /\ HoldsLastId(RecipeIdsOf(out.before))
  /\ out.err = "recipeId must be in 'R-00001' format"
  /\ recipes = out.before

\* C15: a valid body has been refused by an inventory that holds I-99999
C15_WitnessInventory ==
  /\ out.op = "InventoryItem.add"
  /\ HoldsLastId(InventoryIdsOf(out.before))
  /\ out.err = "inventoryId must be in 'I-00001' format"
  /\ inventory = out.before

\* the fields of a recipe form body all hold strings
StringValued(body) ==
  \A f \in {"title", "chef", "mealType", "cuisineType", "prepTime",
            "difficulty", "servings", "ingredients", "instructions"} :
    body[f].t = "str"

\* C16: a request body of string fields that passes validateRecipeBody is
\* accepted by Recipe.add, with no inner validation error and exactly one
\* record appended, whenever the largest id suffix of the collection is
\* below 99999.
C16_OuterImpliesInner ==
  (/\ out.op = "POST /recipe"
   /\ StringValued(out.arg)
   /\ out.ret.layer # "outer"
   /\ MaxSuffixOf(out.before) < IdLimit)
    => /\ out.err = NoErr
       /\ out.ret.status = 303
       /\ Len(recipes) = Len(out.before) + 1
       /\ SubSeq(recipes, 1, Len(out.before)) = out.before

\* C16: a body with padded prepTime has passed both validations and its
\* record is the third of the collection
C16_Witness ==
  /\ out.op = "POST /recipe"
  /\ out.arg.prepTime = Str(<<" ", "7", " ">>)
  /\ out.ret.layer = "none"
  /\ Len(recipes) = 3
  /\ recipes[3].prepTime = Num(7, 0)

====
